---- MODULE Spec2Model ----
(***************************************************************************)
(* Customer-lifetime-value calculator (src/src/App.tsx).                   *)
(*                                                                         *)
(* The component holds four pieces of React state: data (the parameters),  *)
(* and the derived clv, yearlyBreakdown and totalPV, which the effect      *)
(* calculateCLV rewrites after every render in which data changed.         *)
(*                                                                         *)
(* JavaScript numbers are modelled as exact rationals over arbitrary-size  *)
(* integers, extended with the IEEE-754 values +Infinity, -Infinity and    *)
(* NaN that a division by zero produces.  Rounding to 53 bits is not       *)
(* modelled, and neither is the sign of zero (the only zero divisor the    *)
(* code can produce, Math.pow(0, t), is +0).                               *)
(***************************************************************************)
EXTENDS Integers, Sequences, FiniteSets, TLC

(***************************************************************************)
(* Natural numbers of any size: little-endian sequences of limbs below     *)
(* Base, without leading zero limbs (zero is the empty sequence).          *)
(***************************************************************************)
Base == 10 * 1000

RECURSIVE Strip(_)
Strip(a) ==
    IF a = <<>> THEN <<>>
    ELSE IF a[Len(a)] = 0 THEN Strip(SubSeq(a, 1, Len(a) - 1))
    ELSE a

RECURSIVE BigOf(_)
BigOf(n) == IF n = 0 THEN <<>> ELSE <<n % Base>> \o BigOf(n \div Base)

RECURSIVE BigAddC(_, _, _)
BigAddC(a, b, c) ==
    IF a = <<>> /\ b = <<>> THEN (IF c = 0 THEN <<>> ELSE <<c>>)
    ELSE LET x == IF a = <<>> THEN 0 ELSE Head(a)
             y == IF b = <<>> THEN 0 ELSE Head(b)
             s == x + y + c
             ra == IF a = <<>> THEN <<>> ELSE Tail(a)
             rb == IF b = <<>> THEN <<>> ELSE Tail(b)
         IN  <<s % Base>> \o BigAddC(ra, rb, s \div Base)

BigAdd(a, b) == BigAddC(a, b, 0)

\* a - b for a >= b, limb by limb with a borrow
RECURSIVE BigSubB(_, _, _)
BigSubB(a, b, br) ==
    IF a = <<>> THEN <<>>
    ELSE LET y == IF b = <<>> THEN 0 ELSE Head(b)
             rb == IF b = <<>> THEN <<>> ELSE Tail(b)
             s == Head(a) - y - br
         IN  IF s < 0 THEN <<s + Base>> \o BigSubB(Tail(a), rb, 1)
             ELSE <<s>> \o BigSubB(Tail(a), rb, 0)

BigSub(a, b) == Strip(BigSubB(a, b, 0))

\* TRUE iff a < b
RECURSIVE BigLessFrom(_, _, _)
BigLessFrom(a, b, i) ==
    IF i = 0 THEN FALSE
    ELSE IF a[i] # b[i] THEN a[i] < b[i]
    ELSE BigLessFrom(a, b, i - 1)

BigLess(a, b) ==
    IF Len(a) # Len(b) THEN Len(a) < Len(b) ELSE BigLessFrom(a, b, Len(a))

\* a * k + c for a limb k
RECURSIVE BigMulLimb(_, _, _)
BigMulLimb(a, k, c) ==
    IF a = <<>> THEN (IF c = 0 THEN <<>> ELSE <<c>>)
    ELSE LET s == Head(a) * k + c
         IN  <<s % Base>> \o BigMulLimb(Tail(a), k, s \div Base)

BigShift(a) == IF a = <<>> THEN <<>> ELSE <<0>> \o a

RECURSIVE BigMul(_, _)
BigMul(a, b) ==
    IF a = <<>> \/ b = <<>> THEN <<>>
    ELSE IF Len(b) = 1 THEN BigMulLimb(a, b[1], 0)
    ELSE IF Len(a) = 1 THEN BigMulLimb(b, a[1], 0)
    ELSE BigAdd(Strip(BigMulLimb(a, Head(b), 0)), BigShift(BigMul(a, Tail(b))))

\* quotient and remainder of a by a small divisor k (0 < k < Base)
RECURSIVE BigDivModSmall(_, _)
BigDivModSmall(a, k) ==
    IF a = <<>> THEN [q |-> <<>>, r |-> 0]
    ELSE LET hi == BigDivModSmall(Tail(a), k)
             cur == hi.r * Base + Head(a)
         IN  [q |-> <<cur \div k>> \o hi.q, r |-> cur % k]

RECURSIVE BigPow(_, _)
BigPow(a, t) == IF t = 0 THEN <<1>> ELSE BigMul(BigPow(a, t - 1), a)

(***************************************************************************)
(* JavaScript numbers.  A finite number is a reduced fraction n/d with a   *)
(* sign; every denominator the calculator can produce is a product of the  *)
(* primes of 100 and of 100 + discountRate, so cancelling the primes of    *)
(* SmallPrimes reduces a fraction completely.                              *)
(***************************************************************************)
SmallPrimes == <<2, 3, 5, 7, 11>>

RECURSIVE Cancel(_, _, _)
Cancel(n, d, i) ==
    IF i > Len(SmallPrimes) \/ d = <<1>> THEN <<n, d>>
    ELSE LET p == SmallPrimes[i]
             dn == BigDivModSmall(n, p)
             dd == BigDivModSmall(d, p)
         IN  IF dd.r = 0 /\ dn.r = 0
             THEN Cancel(Strip(dn.q), Strip(dd.q), i)
             ELSE Cancel(n, d, i + 1)

\* natural numbers below Base * Base as TLC integers
RECURSIVE Gcd(_, _)
Gcd(a, b) == IF b = 0 THEN a ELSE Gcd(b, a % b)

IsShort(a) == Len(a) <= 2
IntOf(a) == IF a = <<>> THEN 0 ELSE IF Len(a) = 1 THEN a[1] ELSE a[1] + Base * a[2]

\* the fraction n/d in lowest terms, as a pair
Reduce(n, d) ==
    IF IsShort(n) /\ IsShort(d)
    THEN LET g == Gcd(IntOf(n), IntOf(d))
         IN  <<BigOf(IntOf(n) \div g), BigOf(IntOf(d) \div g)>>
    ELSE Cancel(n, d, 1)

NaN == [k |-> "nan", neg |-> FALSE, n |-> <<>>, d |-> <<>>]
Inf(neg) == [k |-> "inf", neg |-> neg, n |-> <<>>, d |-> <<>>]

Fin(neg, n, d) ==
    IF n = <<>> THEN [k |-> "fin", neg |-> FALSE, n |-> <<>>, d |-> <<1>>]
    ELSE IF d = <<1>> THEN [k |-> "fin", neg |-> neg, n |-> n, d |-> d]
    ELSE LET c == Reduce(n, d)
         IN  [k |-> "fin", neg |-> neg, n |-> c[1], d |-> c[2]]

\* the number with integer value i
Num(i) == IF i < 0 THEN Fin(TRUE, BigOf(0 - i), <<1>>) ELSE Fin(FALSE, BigOf(i), <<1>>)

IsZero(x) == x.k = "fin" /\ x.n = <<>>

NumNeg(x) ==
    IF x.k = "nan" \/ IsZero(x) THEN x ELSE [x EXCEPT !.neg = ~x.neg]

\* x + y
NumAdd(x, y) ==
    IF x.k = "nan" \/ y.k = "nan" THEN NaN
    ELSE IF x.k = "inf" /\ y.k = "inf" THEN (IF x.neg = y.neg THEN x ELSE NaN)
    ELSE IF x.k = "inf" THEN x
    ELSE IF y.k = "inf" THEN y
    ELSE LET c == Reduce(x.d, y.d)
             a == BigMul(x.n, c[2])
             b == BigMul(y.n, c[1])
             d == BigMul(x.d, c[2])
         IN  IF x.neg = y.neg THEN Fin(x.neg, BigAdd(a, b), d)
             ELSE IF BigLess(a, b) THEN Fin(y.neg, BigSub(b, a), d)
             ELSE Fin(x.neg, BigSub(a, b), d)

\* x - y
NumSub(x, y) == NumAdd(x, NumNeg(y))

\* x * y
NumMul(x, y) ==
    IF x.k = "nan" \/ y.k = "nan" THEN NaN
    ELSE IF x.k = "inf" \/ y.k = "inf"
         THEN (IF IsZero(x) \/ IsZero(y) THEN NaN ELSE Inf(x.neg # y.neg))
    ELSE Fin(x.neg # y.neg, BigMul(x.n, y.n), BigMul(x.d, y.d))

\* x / y
NumDiv(x, y) ==
    IF x.k = "nan" \/ y.k = "nan" THEN NaN
    ELSE IF x.k = "inf" THEN (IF y.k = "inf" THEN NaN ELSE Inf(x.neg # y.neg))
    ELSE IF y.k = "inf" THEN Num(0)
    ELSE IF IsZero(y) THEN (IF IsZero(x) THEN NaN ELSE Inf(x.neg))
    ELSE Fin(x.neg # y.neg, BigMul(x.n, y.d), BigMul(x.d, y.n))

\* Math.pow(x, t) for an integer t >= 0; Math.pow(x, 0) is 1 for every x,
\* NaN included.  A power of a reduced fraction is reduced.
MathPow(x, t) ==
    IF t = 0 THEN Num(1)
    ELSE IF x.k = "nan" THEN NaN
    ELSE IF x.k = "inf" THEN Inf(x.neg /\ t % 2 = 1)
    ELSE IF IsZero(x) THEN x
    ELSE [k |-> "fin", neg |-> x.neg /\ t % 2 = 1, n |-> BigPow(x.n, t), d |-> BigPow(x.d, t)]

(***************************************************************************)
(* State.  data, clv, yearlyBreakdown and totalPV are the component's      *)
(* useState cells.  effectPending says that a render with a new data       *)
(* object has been committed and its effect (calculateCLV) has not run     *)
(* yet: useEffect runs after the render it belongs to.  lastOp and edits   *)
(* are history variables: the last operation that ran, and the number of   *)
(* field edits so far (which bounds the exploration).                      *)
(***************************************************************************)
VARIABLES data, clv, yearlyBreakdown, totalPV, effectPending, lastOp, edits

vars == <<data, clv, yearlyBreakdown, totalPV, effectPending, lastOp, edits>>

MaxHorizon == 10
MinHorizon == 1
NewYearProbability == 20

\* how many field edits a behaviour holds
MaxEdits == 1
\* longest probability series drawn as an input of calculateCLV
MaxSeriesLen == 2

DefaultData ==
    [margin |-> 60,
     repeatProbabilities |-> <<100, 90, 85, 85, 60, 30>>,
     acquisitionCost |-> 6,
     discountRate |-> 10,
     timeHorizon |-> 6]

(***************************************************************************)
(* calculateCLV, lines 37-72.  Periods t are 0-based as in the code; the   *)
(* series is a 1-based sequence, so entry t is repeatProbabilities[t + 1]. *)
(* The display string `calculation` of a row is not modelled.              *)
(***************************************************************************)
\* mutant: a missing entry read as 100 instead of 0
RepeatProbDefaultFull(d, t) ==
    IF t + 1 <= Len(d.repeatProbabilities) /\ d.repeatProbabilities[t + 1] # 0
    THEN d.repeatProbabilities[t + 1]
    ELSE 100

\* data.repeatProbabilities[t] || 0
RepeatProb(d, t) ==
    IF t + 1 <= Len(d.repeatProbabilities) /\ d.repeatProbabilities[t + 1] # 0
    THEN d.repeatProbabilities[t + 1]
    ELSE 0

\* data.margin * (repeatProb / 100)
AdjustedMargin(margin, repeatProb) ==
    NumMul(Num(margin), NumDiv(Num(repeatProb), Num(100)))

\* mutant: periods counted from 1
DiscountFactorFromOne(discountRate, t) ==
    MathPow(NumAdd(Num(1), NumDiv(Num(discountRate), Num(100))), t + 1)

\* Math.pow(1 + data.discountRate / 100, t)
DiscountFactor(discountRate, t) ==
    MathPow(NumAdd(Num(1), NumDiv(Num(discountRate), Num(100))), t)

\* mutant: compounding instead of discounting
PresentValueCompounded(adjustedMargin, discountFactor) == NumMul(adjustedMargin, discountFactor)

\* adjustedMargin / discountFactor
PresentValue(adjustedMargin, discountFactor) == NumDiv(adjustedMargin, discountFactor)

\* the constants of one iteration and the row pushed (lines 42-45, 57-65)
BreakdownRow(d, t) ==
    LET repeatProb == RepeatProb(d, t)
        adjustedMargin == AdjustedMargin(d.margin, repeatProb)
        discountFactor == DiscountFactor(d.discountRate, t)
        presentValue == PresentValue(adjustedMargin, discountFactor)
    IN  [year |-> t,
         margin |-> d.margin,
         repeatProb |-> repeatProb,
         adjustedMargin |-> adjustedMargin,
         discountFactor |-> discountFactor,
         presentValue |-> presentValue]

\* the for loop: t runs from 0 while t < data.timeHorizon
RECURSIVE CalcLoop(_, _, _, _)
CalcLoop(d, t, totalPresentValue, breakdown) ==
    IF t < d.timeHorizon
    THEN LET row == BreakdownRow(d, t)
         IN  CalcLoop(d, t + 1, NumAdd(totalPresentValue, row.presentValue),
                      Append(breakdown, row))
    ELSE [yearlyBreakdown |-> breakdown,
          totalPV |-> totalPresentValue,
          clv |-> NumSub(totalPresentValue, Num(d.acquisitionCost))]

calculateCLV(d) == CalcLoop(d, 0, Num(0), <<>>)

(***************************************************************************)
(* The effect of lines 33-35: after a render whose data object is new,     *)
(* calculateCLV runs and stores its three results.                         *)
(***************************************************************************)
RunEffect ==
    /\ effectPending
    /\ LET r == calculateCLV(data)
       IN  /\ clv' = r.clv
           /\ totalPV' = r.totalPV
           /\ yearlyBreakdown' = r.yearlyBreakdown
    /\ effectPending' = FALSE
    /\ lastOp' = "calculateCLV"
    /\ UNCHANGED <<data, edits>>

(***************************************************************************)
(* setData(newData) from an event handler: the component renders again    *)
(* with the new data object and the results stored at that moment, and     *)
(* the effect is scheduled because data changed identity.  React runs the  *)
(* pending effect of a render before it processes a later update, so a     *)
(* handler's update is always rendered after the previous effect: the      *)
(* handlers are taken when no effect is pending.                           *)
(***************************************************************************)
SetData(newData) ==
    /\ data' = newData
    /\ UNCHANGED <<clv, totalPV, yearlyBreakdown>>
    /\ effectPending' = TRUE

\* mutant: the horizon grows and the series does not
AddYearDataNoAppend(d) == [d EXCEPT !.timeHorizon = d.timeHorizon + 1]

\* the data object addYear passes to setData (lines 82-86)
AddYearData(d) ==
    [d EXCEPT !.timeHorizon = d.timeHorizon + 1,
              !.repeatProbabilities = Append(d.repeatProbabilities, NewYearProbability)]

\* mutant: <= instead of <
AddYearGuardInclusive(d) == d.timeHorizon <= MaxHorizon

AddYearGuard(d) == d.timeHorizon < MaxHorizon

addYear ==
    /\ ~effectPending
    /\ lastOp' = "addYear"
    /\ UNCHANGED edits
    /\ IF AddYearGuard(data)
       THEN SetData(AddYearData(data))
       ELSE UNCHANGED <<data, clv, yearlyBreakdown, totalPV, effectPending>>

\* mutant: slice(1), which drops the first entry
RemoveYearDataDropFirst(d) ==
    [d EXCEPT !.timeHorizon = d.timeHorizon - 1,
              !.repeatProbabilities = Tail(d.repeatProbabilities)]

\* mutant: slice(0, -2), which drops two entries
RemoveYearDataDropTwo(d) ==
    [d EXCEPT !.timeHorizon = d.timeHorizon - 1,
              !.repeatProbabilities =
                  SubSeq(d.repeatProbabilities, 1, Len(d.repeatProbabilities) - 2)]

\* the data object removeYear passes to setData (lines 92-96); slice(0, -1)
RemoveYearData(d) ==
    [d EXCEPT !.timeHorizon = d.timeHorizon - 1,
              !.repeatProbabilities =
                  SubSeq(d.repeatProbabilities, 1, Len(d.repeatProbabilities) - 1)]

\* mutant: >= instead of >
RemoveYearGuardInclusive(d) == d.timeHorizon >= MinHorizon

RemoveYearGuard(d) == d.timeHorizon > MinHorizon

removeYear ==
    /\ ~effectPending
    /\ lastOp' = "removeYear"
    /\ UNCHANGED edits
    /\ IF RemoveYearGuard(data)
       THEN SetData(RemoveYearData(data))
       ELSE UNCHANGED <<data, clv, yearlyBreakdown, totalPV, effectPending>>

(***************************************************************************)
(* Field edits.  The value of an input element either parses as a number   *)
(* or does not; parseFloat(...) || 0 turns an unparsable value (NaN) and   *)
(* a zero into 0.                                                          *)
(***************************************************************************)
Unparsable == [valid |-> FALSE, value |-> 0]
Parsed(v) == [valid |-> TRUE, value |-> v]

ParseFloatOrZero(raw) == IF raw.valid /\ raw.value # 0 THEN raw.value ELSE 0

MarginInputs == {Unparsable, Parsed(100)}
AcquisitionCostInputs == {Parsed(20)}
DiscountRateInputs == {Parsed(-100)}
ProbabilityInputs == {Parsed(50)}

\* newProbs[index] = value on a copy of the series (lines 75-77)
UpdatedProbabilities(d, index, value) ==
    [d EXCEPT !.repeatProbabilities = [@ EXCEPT ![index + 1] = value]]

\* the inputs of lines 253-270: one per index below timeHorizon
updateRepeatProbability ==
    /\ ~effectPending
    /\ edits < MaxEdits
    /\ \E index \in 0 .. data.timeHorizon - 1, raw \in ProbabilityInputs :
          SetData(UpdatedProbabilities(data, index, ParseFloatOrZero(raw)))
    /\ lastOp' = "updateRepeatProbability"
    /\ edits' = edits + 1

setMargin ==
    /\ ~effectPending
    /\ edits < MaxEdits
    /\ \E raw \in MarginInputs :
          SetData([data EXCEPT !.margin = ParseFloatOrZero(raw)])
    /\ lastOp' = "setMargin"
    /\ edits' = edits + 1

setAcquisitionCost ==
    /\ ~effectPending
    /\ edits < MaxEdits
    /\ \E raw \in AcquisitionCostInputs :
          SetData([data EXCEPT !.acquisitionCost = ParseFloatOrZero(raw)])
    /\ lastOp' = "setAcquisitionCost"
    /\ edits' = edits + 1

setDiscountRate ==
    /\ ~effectPending
    /\ edits < MaxEdits
    /\ \E raw \in DiscountRateInputs :
          SetData([data EXCEPT !.discountRate = ParseFloatOrZero(raw)])
    /\ lastOp' = "setDiscountRate"
    /\ edits' = edits + 1

\* the state of the first committed render: useState's initial values
Init ==
    /\ data = DefaultData
    /\ clv = Num(0)
    /\ yearlyBreakdown = <<>>
    /\ totalPV = Num(0)
    /\ effectPending = TRUE
    /\ lastOp = "mount"
    /\ edits = 0

Next ==
    \/ RunEffect
    \/ addYear
    \/ removeYear
    \/ updateRepeatProbability
    \/ setMargin
    \/ setAcquisitionCost
    \/ setDiscountRate

Spec == Init /\ [][Next]_vars

(***************************************************************************)
(* calculateCLV as a function of its parameters: the initial states draw   *)
(* the parameters from bounded sets, series shorter than the horizon       *)
(* included, and the only step is the effect.                              *)
(***************************************************************************)
MarginValues == {-60, 60}
AcquisitionCostValues == {0, 6}
DiscountRateValues == {-200, -100, 0, 10}
ProbabilityValues == {0, 50, 100}

SeriesValues ==
    UNION {[1 .. n -> ProbabilityValues] : n \in 0 .. MaxSeriesLen}
        \cup {DefaultData.repeatProbabilities}

InitCompute ==
    /\ data \in [margin : MarginValues,
                 repeatProbabilities : SeriesValues,
                 acquisitionCost : AcquisitionCostValues,
                 discountRate : DiscountRateValues,
                 timeHorizon : MinHorizon .. MaxHorizon]
    /\ clv = Num(0)
    /\ yearlyBreakdown = <<>>
    /\ totalPV = Num(0)
    /\ effectPending = TRUE
    /\ lastOp = "mount"
    /\ edits = 0

NextCompute == RunEffect

SpecCompute == InitCompute /\ [][NextCompute]_vars

(***************************************************************************)
(* Properties                                                              *)
(***************************************************************************)
Scalars(d) == <<d.margin, d.acquisitionCost, d.discountRate>>

\* C1: after any sequence of addYear, removeYear, in-range probability
\* edits and scalar edits from the defaults, the series has exactly
\* timeHorizon entries.
C1_SeriesLengthIsHorizon == Len(data.repeatProbabilities) = data.timeHorizon

\* a successful removeYear after an edit, on a series that was grown before
C1_Witness ==
    /\ lastOp = "removeYear"
    /\ effectPending
    /\ edits > 0
    /\ data.timeHorizon > Len(DefaultData.repeatProbabilities)

\* C2: timeHorizon is an integer between 1 and 10 in every reachable state.
C2_HorizonInBounds ==
    /\ data.timeHorizon \in Int
    /\ MinHorizon <= data.timeHorizon
    /\ data.timeHorizon <= MaxHorizon

\* removeYear clicked at the lower bound
C2_Witness ==
    /\ lastOp = "removeYear"
    /\ ~effectPending
    /\ data.timeHorizon = MinHorizon

\* C3: addYear at timeHorizon = 10 and removeYear at timeHorizon = 1 leave
\* the whole parameter object (timeHorizon, the series, margin,
\* acquisitionCost, discountRate) unchanged, every time they are called.
C3_NoOpAtBounds ==
    [][ /\ (addYear /\ data.timeHorizon = MaxHorizon) => data' = data
        /\ (removeYear /\ data.timeHorizon = MinHorizon) => data' = data ]_vars

\* addYear clicked at the upper bound: no render followed
C3_Witness ==
    /\ lastOp = "addYear"
    /\ ~effectPending
    /\ data.timeHorizon = MaxHorizon

\* C4: in every state, the initial one and the one right after each
\* mutation included, the stored results (yearlyBreakdown, totalPV, clv)
\* equal calculateCLV of the current parameters.
C4_ResultsNeverStale ==
    LET r == calculateCLV(data)
    IN  /\ yearlyBreakdown = r.yearlyBreakdown
        /\ totalPV = r.totalPV
        /\ clv = r.clv

\* C5: in every state the breakdown holds exactly timeHorizon rows, whose
\* year fields are 0, 1, ..., timeHorizon - 1 in this order.
C5_RowCountIsHorizon ==
    /\ Len(yearlyBreakdown) = data.timeHorizon
    /\ \A i \in 1 .. Len(yearlyBreakdown) : yearlyBreakdown[i].year = i - 1

\* what the code does guarantee: once the effect of the last render has
\* run, the stored results are those of the current parameters
ResultsFreshWhenIdle ==
    ~effectPending =>
        LET r == calculateCLV(data)
        IN  /\ yearlyBreakdown = r.yearlyBreakdown
            /\ totalPV = r.totalPV
            /\ clv = r.clv

\* the sum of presentValue over the rows, first row first
RECURSIVE SumPresentValues(_, _)
SumPresentValues(rows, i) ==
    IF i = 0 THEN Num(0)
    ELSE NumAdd(SumPresentValues(rows, i - 1), rows[i].presentValue)

\* (margin * repeatProb / 100) / (1 + discountRate / 100) ^ t
DiscountedMargin(margin, repeatProb, discountRate, t) ==
    NumDiv(NumDiv(NumMul(Num(margin), Num(repeatProb)), Num(100)),
           MathPow(NumAdd(Num(1), NumDiv(Num(discountRate), Num(100))), t))

\* C6: for every parameter value, the results calculateCLV stores satisfy
\* totalPV = the sum of presentValue over the rows, clv = totalPV -
\* acquisitionCost, and row t has presentValue =
\* (margin * repeatProb_t / 100) / (1 + discountRate / 100) ^ t.  Equality
\* is identity of values: an infinite or NaN result equals itself.
C6_TotalsAndPresentValues ==
    ~effectPending =>
        /\ totalPV = SumPresentValues(yearlyBreakdown, Len(yearlyBreakdown))
        /\ clv = NumSub(totalPV, Num(data.acquisitionCost))
        /\ \A i \in 1 .. Len(yearlyBreakdown) :
              yearlyBreakdown[i].presentValue =
                  DiscountedMargin(data.margin, yearlyBreakdown[i].repeatProb,
                                   data.discountRate, i - 1)

\* a computed breakdown of the default series at 10 percent and ten periods
C6_Witness ==
    /\ ~effectPending
    /\ lastOp = "calculateCLV"
    /\ data.discountRate = 10
    /\ data.timeHorizon = MaxHorizon
    /\ data.repeatProbabilities = DefaultData.repeatProbabilities
    /\ totalPV.k = "fin"
    /\ ~IsZero(yearlyBreakdown[2].presentValue)

\* C7: for any discountRate, -100 and below included, the row of period 0
\* has discountFactor = 1 and presentValue = adjustedMargin.
C7_PeriodZeroUndiscounted ==
    ~effectPending =>
        /\ yearlyBreakdown[1].year = 0
        /\ yearlyBreakdown[1].discountFactor = Num(1)
        /\ yearlyBreakdown[1].presentValue = yearlyBreakdown[1].adjustedMargin

\* a computed breakdown at discountRate = -100 with a nonzero first margin
C7_Witness ==
    /\ ~effectPending
    /\ lastOp = "calculateCLV"
    /\ data.discountRate = -100
    /\ data.timeHorizon > 1
    /\ ~IsZero(yearlyBreakdown[1].adjustedMargin)

\* the periods below timeHorizon for which the series has no entry
MissingPeriods == {t \in 0 .. data.timeHorizon - 1 : t >= Len(data.repeatProbabilities)}

\* C8 as claimed: the row of a period without an entry has repeatProb = 0,
\* adjustedMargin = 0 and presentValue = 0, for every margin and every
\* discountRate.
C8_MissingEntryIsZero ==
    ~effectPending =>
        \A t \in MissingPeriods :
            /\ yearlyBreakdown[t + 1].repeatProb = 0
            /\ yearlyBreakdown[t + 1].adjustedMargin = Num(0)
            /\ yearlyBreakdown[t + 1].presentValue = Num(0)

\* C8 as amended: the row of a period without an entry has repeatProb = 0
\* and adjustedMargin = 0; its presentValue is 0 when its discountFactor is
\* not 0, and NaN (0 / 0) when its discountFactor is 0, as it is for
\* discountRate = -100 and t >= 1.
C8_MissingEntryIsZeroOrNaN ==
    ~effectPending =>
        \A t \in MissingPeriods :
            LET row == yearlyBreakdown[t + 1]
            IN  /\ row.repeatProb = 0
                /\ row.adjustedMargin = Num(0)
                /\ row.presentValue = (IF IsZero(row.discountFactor) THEN NaN ELSE Num(0))
                /\ (data.discountRate = -100 /\ t >= 1) => IsZero(row.discountFactor)

\* a computed breakdown with a missing entry at a period t >= 1 and
\* discountRate = -100
C8_Witness ==
    /\ ~effectPending
    /\ lastOp = "calculateCLV"
    /\ data.discountRate = -100
    /\ \E t \in MissingPeriods : t >= 1 /\ yearlyBreakdown[t + 1].presentValue = NaN

\* C9: addYear below the upper bound adds 1 to timeHorizon and appends one
\* entry 20; removeYear above the lower bound subtracts 1 from timeHorizon
\* and removes the last entry only; both leave margin, acquisitionCost,
\* discountRate and every entry below the smaller horizon unchanged.
C9_ResizeTouchesOnlyTheTail ==
    [][ /\ (addYear /\ data.timeHorizon < MaxHorizon) =>
              /\ data'.timeHorizon = data.timeHorizon + 1
              /\ Len(data'.repeatProbabilities) = Len(data.repeatProbabilities) + 1
              /\ data'.repeatProbabilities[Len(data'.repeatProbabilities)] = 20
              /\ \A i \in 1 .. Len(data.repeatProbabilities) :
                    data'.repeatProbabilities[i] = data.repeatProbabilities[i]
              /\ Scalars(data') = Scalars(data)
        /\ (removeYear /\ data.timeHorizon > MinHorizon) =>
              /\ data'.timeHorizon = data.timeHorizon - 1
              /\ Len(data'.repeatProbabilities) = Len(data.repeatProbabilities) - 1
              /\ \A i \in 1 .. Len(data'.repeatProbabilities) :
                    data'.repeatProbabilities[i] = data.repeatProbabilities[i]
              /\ Scalars(data') = Scalars(data) ]_vars

\* a successful removeYear on a series that holds an appended entry
C9_Witness ==
    /\ lastOp = "removeYear"
    /\ effectPending
    /\ \E i \in 1 .. Len(data.repeatProbabilities) :
          i > Len(DefaultData.repeatProbabilities)
          /\ data.repeatProbabilities[i] = NewYearProbability

\* the series with its last entry replaced by the entry addYear appends
WithLastEntryReset(d) ==
    [d EXCEPT !.repeatProbabilities[Len(d.repeatProbabilities)] = NewYearProbability]

\* C10: after addYear below the upper bound, removeYear is enabled and
\* gives back exactly the parameters before addYear (hence the same
\* calculateCLV result); after removeYear above the lower bound, addYear
\* gives back the parameters before removeYear with the last entry at 20,
\* whatever it was.
C10_GrowThenShrinkRoundTrips ==
    [][ /\ (addYear /\ data.timeHorizon < MaxHorizon) =>
              /\ RemoveYearGuard(data')
              /\ RemoveYearData(data') = data
        /\ (removeYear /\ data.timeHorizon > MinHorizon) =>
              /\ AddYearGuard(data')
              /\ AddYearData(data') = WithLastEntryReset(data) ]_vars

\* the defaults again, right after a removeYear that undid an addYear
C10_Witness ==
    /\ lastOp = "removeYear"
    /\ effectPending
    /\ edits = 0
    /\ data = DefaultData
====
